---- MODULE Spec2Model ----
(***************************************************************************)
(* Model of src/src/github.ts: the GitHub class that numbers a DAO         *)
(* proposal (assignNumber), creates the branch prop/<id> on the fork       *)
(* (createBranch), commits the rendered file (createFile) and opens the    *)
(* pull request (openPullRequest).  Every await of addProposal is one      *)
(* step of a call; the GitHub REST API is modelled by the repository state *)
(* it keeps (directory listing of master, refs, pull requests) and by a    *)
(* nondeterministic choice among the answers it can give.                  *)
(*                                                                         *)
(* Strings that the code inspects (file names, numbers) are sequences of   *)
(* one-character strings, so that startsWith and number formatting are     *)
(* computed as JavaScript computes them.                                   *)
(***************************************************************************)
EXTENDS Integers, Sequences, FiniteSets

\* ------------------------------------------------------------------ bounds
MaxCalls == 2      \* addProposal calls in one behaviour
MaxId == 2         \* proposal ids are 1..MaxId
FirstYear == 2024  \* earliest clock year considered
LastYear == 2026   \* latest clock year considered
MaxTitleLen == 2   \* characters of a proposal title handed to formatFile
MaxBodyLen == 3    \* characters of a proposal body handed to formatFile

\* ------------------------------------------------------- program constants
startingYear == 2025
startingTerm == 6
exceptionTerm == 6

\* ----------------------------------------------------------------- strings
Digits == <<"0", "1", "2", "3", "4", "5", "6", "7", "8", "9">>

RECURSIVE NatToString(_)
NatToString(n) ==
    IF n < 10 THEN <<Digits[n + 1]>>
    ELSE NatToString(n \div 10) \o <<Digits[(n % 10) + 1]>>

\* `${n}` for an integer n
numberToString(n) == IF n < 0 THEN <<"-">> \o NatToString(0 - n) ELSE NatToString(n)

\* String.prototype.startsWith
startsWith(s, p) == Len(s) >= Len(p) /\ SubSeq(s, 1, Len(p)) = p

Dot == <<".">>
MdxExt == <<".", "m", "d", "x">>

\* the file name `${ep}.mdx` inside src/pages/dao/proposals
fileName(ep) == ep \o MdxExt

\* `prop/${proposal.id}`
branchName(id) == <<"p", "r", "o", "p", "/">> \o numberToString(id)

\* ------------------------------------------------------------ configuration
UpstreamDocs == [owner |-> "ensdomains", repo |-> "docs"]
ForkDocs == [owner |-> "dao-bot", repo |-> "docs"]
Repos == {UpstreamDocs, ForkDocs}

Ids == 1..MaxId
Years == FirstYear..LastYear
\* the proposals handed to addProposal: one document per id, the one of the
\* last id also in a version that prettier rejects
Proposals == [id : Ids, malformed : {FALSE}] \cup {[id |-> MaxId, malformed |-> TRUE]}

VARIABLES
    env,       \* the Env the worker was started with
    rendering, \* the formatFile run under study: its arguments and its text
    this,      \* the GitHub object: owner, repo, upstreamOwner, upstreamRepo
    year,      \* new Date().getFullYear()
    dir,       \* repo -> names in src/pages/dao/proposals on master
    branches,  \* repo -> (branch name -> names in the directory on that branch)
    pulls,     \* sequence of the pull requests opened, oldest first
    calls      \* sequence of the addProposal calls made, oldest first

vars == <<env, rendering, this, year, dir, branches, pulls, calls>>

\* ------------------------------------------------------------ assignNumber
\* terms that last two years
currentTermOf_TwoYears(currentYear) == ((currentYear - startingYear) \div 2) + startingTerm

\* Math.floor((currentYear - startingYear) / 1) + startingTerm
currentTermOf(currentYear) == ((currentYear - startingYear) \div 1) + startingTerm

\* the prefix without its dot
termPrefix_NoDot(currentTerm) == numberToString(currentTerm)

\* the prefix `${currentTerm}.` handed to startsWith
termPrefix(currentTerm) == numberToString(currentTerm) \o Dot

\* proposals.data.filter((file) => file.name.startsWith(`${currentTerm}.`))
currentTermProposals(currentTerm, data) ==
    {name \in data : startsWith(name, termPrefix(currentTerm))}

\* the correction left in force one term longer
nextProposalNumber_AlsoTerm7(currentTerm, currentTermProposalCount) ==
    IF currentTerm \in {exceptionTerm, exceptionTerm + 1}
    THEN currentTermProposalCount - 2
    ELSE currentTermProposalCount + 1

\* the numbering without the term-6 branch
nextProposalNumber_NoException(currentTerm, currentTermProposalCount) ==
    currentTermProposalCount + 1

\* the if (currentTerm === 6) ... else ... that sets nextProposalNumber
nextProposalNumber(currentTerm, currentTermProposalCount) ==
    IF currentTerm = exceptionTerm
    THEN currentTermProposalCount - 2
    ELSE currentTermProposalCount + 1

\* the value assignNumber returns for a clock year and a directory listing
assignNumber(currentYear, data) ==
    LET currentTerm == currentTermOf(currentYear)
        currentTermProposalCount == Cardinality(currentTermProposals(currentTerm, data))
    IN  numberToString(currentTerm) \o Dot
            \o numberToString(nextProposalNumber(currentTerm, currentTermProposalCount))

\* ------------------------------------------------------------ createBranch
\* a catch that answers a RequestError with a ref
createBranchResult_RequestErrorAsRef(outcome) ==
    IF outcome \in {"created", "RequestError"} THEN "ref" ELSE "throw"

\* the try/catch around createRef: the value createBranch produces for each
\* way the createRef request can end
createBranchResult(outcome) ==
    CASE outcome = "created" -> "ref"
      [] outcome = "RequestError" -> "null"
      [] OTHER -> "throw"

\* ------------------------------------------- control flow of addProposal
\* assignNumber's exception swallowed
afterAssignNumber_Swallowed(answer) == "getRef"

\* after `await this.assignNumber()`: a rejected getContent and the
\* Array.isArray check both end the call with the exception
afterAssignNumber(answer) == IF answer = "array" THEN "getRef" ELSE "threw"

\* after `await getRef(...)`, which is outside the try block
afterGetRef(ok) == IF ok THEN "createRef" ELSE "threw"

\* addProposal without the if (createdBranch)
afterCreateBranch_NoGuard(createdBranch) ==
    IF createdBranch = "throw" THEN "threw" ELSE "createFile"

\* after `await this.createBranch(branch)`: if (createdBranch) { ... }
afterCreateBranch(createdBranch) ==
    CASE createdBranch = "throw" -> "threw"
      [] createdBranch = "ref" -> "createFile"
      [] OTHER -> "returned"

\* createFile's exception swallowed
afterCreateFile_Swallowed(outcome) == "openPullRequest"

\* after `await this.createFile(...)`
afterCreateFile(outcome) == IF outcome = "committed" THEN "openPullRequest" ELSE "threw"

\* openPullRequest retried until it succeeds
afterOpenPullRequest_Retry(outcome) ==
    IF outcome = "opened" THEN "returned" ELSE "openPullRequest"

\* after `await this.openPullRequest(...)` and the console.log
afterOpenPullRequest(outcome) == IF outcome = "opened" THEN "returned" ELSE "threw"

\* ------------------------------------------------------ the GitHub object
Envs == [GITHUB_REPO_OWNER : {ForkDocs.owner}, GITHUB_REPO_NAME : {ForkDocs.repo},
         IS_DEV : BOOLEAN]

\* a constructor that does not look at IS_DEV
constructor_IgnoresDev(e) ==
    [owner |-> e.GITHUB_REPO_OWNER,
     repo |-> e.GITHUB_REPO_NAME,
     upstreamOwner |-> "ensdomains",
     upstreamRepo |-> "docs"]

\* the fields of a GitHub object built from env (the configuration is complete)
constructor(e) ==
    [owner |-> e.GITHUB_REPO_OWNER,
     repo |-> e.GITHUB_REPO_NAME,
     upstreamOwner |-> IF e.IS_DEV THEN e.GITHUB_REPO_OWNER ELSE "ensdomains",
     upstreamRepo |-> IF e.IS_DEV THEN e.GITHUB_REPO_NAME ELSE "docs"]

userRepo == [owner |-> this.owner, repo |-> this.repo]
upstream == [owner |-> this.upstreamOwner, repo |-> this.upstreamRepo]

\* ------------------------------------------------- the requests that are sent
\* Fixed texts are one element of a string; what is interpolated into them
\* keeps its characters.
ProposalsPath == "src/pages/dao/proposals"

\* repos.getContent in assignNumber
getContentRequest(t) ==
    [owner |-> t.upstreamOwner, repo |-> t.upstreamRepo, path |-> ProposalsPath]

\* git.getRef in createBranch
getRefRequest(t) ==
    [owner |-> t.owner, repo |-> t.repo, ref |-> "heads/master"]

\* git.createRef in createBranch
createRefRequest(t, branch, sha) ==
    [owner |-> t.owner, repo |-> t.repo, ref |-> <<"refs/heads/">> \o branch, sha |-> sha]

\* repos.createOrUpdateFileContents in createFile (the content is formatFile's)
createFileRequest(t, branch, ep) ==
    [owner |-> t.owner, repo |-> t.repo,
     path |-> <<"src/pages/dao/proposals/">> \o ep \o MdxExt,
     message |-> <<"Add EP ">> \o ep,
     branch |-> branch]

\* a pull request titled after the branch instead of the number
openPullRequestRequest_BranchTitle(t, branch, ep) ==
    [owner |-> t.upstreamOwner, repo |-> t.upstreamRepo,
     title |-> <<"Add EP ">> \o branch,
     head |-> [owner |-> t.owner, branch |-> branch],
     base |-> "master",
     maintainer_can_modify |-> TRUE]

\* pulls.create in openPullRequest; head is `${this.owner}:${branch}`
openPullRequestRequest(t, branch, ep) ==
    [owner |-> t.upstreamOwner, repo |-> t.upstreamRepo,
     title |-> <<"Add EP ">> \o ep,
     head |-> [owner |-> t.owner, branch |-> branch],
     base |-> "master",
     maintainer_can_modify |-> TRUE]

\* the repository a request is addressed to
repoOf(request) == [owner |-> request.owner, repo |-> request.repo]

\* the directory entry that a path under src/pages/dao/proposals/ names
entryName(path) == Tail(path)

\* ------------------------------------------------------- directory listings
Name(chars) == chars \o MdxExt
n5x1 == Name(<<"5", ".", "1">>)
n6x1 == Name(<<"6", ".", "1">>)
n6x2 == Name(<<"6", ".", "2">>)
n6x6x1 == Name(<<"6", ".", "6", ".", "1">>)
n6x6x2 == Name(<<"6", ".", "6", ".", "2">>)
n7x1 == Name(<<"7", ".", "1">>)
n7x2 == Name(<<"7", ".", "2">>)
n70x1 == Name(<<"7", "0", ".", "1">>)
n66x1 == Name(<<"6", "6", ".", "1">>)

\* the file names a listing is drawn from when the numbering is checked
Names == {n5x1, n6x1, n6x2, n6x6x1, n6x6x2, n7x1, n7x2, n70x1, n66x1}

\* the listings the publication runs start from
InitListings == {{}, {n6x1, n6x2, n6x6x1, n7x2}}

\* --------------------------------------------------------------- the calls
NoEp == <<>>

\* ---------------------------------------------------------------- formatFile
\* titles and bodies are strings over these characters
Chars == {"a", "b", "$", "&"}
StringsUpTo(n) == UNION {[1..k -> Chars] : k \in 0..n}

\* title: string | null
NullTitle == [null |-> TRUE, s |-> <<>>]
Titles == {NullTitle} \cup {[null |-> FALSE, s |-> t] : t \in StringsUpTo(MaxTitleLen)}

\* the arguments of formatFile: Proposal & { ep }
FormatArgs ==
    [author : {<<"alice.eth">>}, ep : {<<"7", ".", "3">>}, id : {42},
     markdown : StringsUpTo(MaxBodyLen), title : Titles,
     type : {"executable", "social"}]

\* if (title): null and the empty string are falsy
titleGiven(title) == ~title.null /\ title.s # <<>>

\* the metadataTable template of each type, ${id} interpolated
metadataTable(type, id) ==
    IF type = "executable"
    THEN <<"\n| **Status** | Active |\n| --- | --- |\n| **Discussion Thread** | [Forum](https://discuss.ens.domains/t/) |\n| **Votes** | [Agora](https://agora.ensdao.org/proposals/">>
             \o numberToString(id)
             \o <<"), [Tally](https://tally.ensdao.org/dao/proposal/">>
             \o numberToString(id) \o <<") |">>
    ELSE <<"\n| **Status** | Active |\n| --- | --- |\n| **Discussion Thread** | [Forum](https://discuss.ens.domains/t/) |\n| **Votes** | [Snapshot](https://snapshot.box/#/s:ens.eth/proposal/">>
             \o numberToString(id) \o <<") |">>

\* `[EP ${ep}] ${title}\n\n::authors\n\n${metadataTable}\n`
titleReplacement(ep, title, table) ==
    <<"[EP ">> \o ep \o <<"] ">> \o title \o <<"\n\n::authors\n\n">> \o table \o <<"\n">>

\* the positions at which pattern occurs in str
occurrences(str, pattern) ==
    {i \in 1..(Len(str) - Len(pattern) + 1) : SubSeq(str, i, i + Len(pattern) - 1) = pattern}

min(S) == CHOOSE i \in S : \A j \in S : i <= j
max(S) == CHOOSE i \in S : \A j \in S : i >= j

Apostrophe == "'"
Backtick == "U+0060"  \* the grave accent, written by its code point

\* the replacement patterns that String.prototype.replace expands in a
\* replacement string: $ followed by $, by &, by a backtick or by an apostrophe
RECURSIVE expandReplacement(_, _, _, _)
expandReplacement(replacement, matched, before, after) ==
    IF replacement = <<>> THEN <<>>
    ELSE IF Len(replacement) >= 2 /\ replacement[1] = "$"
                /\ replacement[2] \in {"$", "&", Backtick, Apostrophe}
         THEN (CASE replacement[2] = "$" -> <<"$">>
                 [] replacement[2] = "&" -> matched
                 [] replacement[2] = Backtick -> before
                 [] OTHER -> after)
                  \o expandReplacement(SubSeq(replacement, 3, Len(replacement)),
                                       matched, before, after)
         ELSE <<replacement[1]>>
                  \o expandReplacement(Tail(replacement), matched, before, after)

\* String.prototype.replace with a string pattern, at a given occurrence
replaceAt(str, pattern, replacement, i) ==
    LET before == SubSeq(str, 1, i - 1)
        after == SubSeq(str, i + Len(pattern), Len(str))
    IN  before \o expandReplacement(replacement, pattern, before, after) \o after

\* a replace that takes the last occurrence
replace_LastOccurrence(str, pattern, replacement) ==
    IF occurrences(str, pattern) = {} THEN str
    ELSE replaceAt(str, pattern, replacement, max(occurrences(str, pattern)))

\* str.replace(pattern, replacement): the first occurrence only
replace(str, pattern, replacement) ==
    IF occurrences(str, pattern) = {} THEN str
    ELSE replaceAt(str, pattern, replacement, min(occurrences(str, pattern)))

\* the front matter prepended to the markdown
frontMatter(author, type) ==
    <<"---\nauthors:\n  - ">> \o author \o <<"\nproposal:\n  type: ", Apostrophe, type, Apostrophe, "\n---\n\n">>

\* the markdown that formatFile hands to prettier.format
formatFileText(a) ==
    frontMatter(a.author, a.type)
        \o (IF titleGiven(a.title)
            THEN replace(a.markdown, a.title.s,
                         titleReplacement(a.ep, a.title.s, metadataTable(a.type, a.id)))
            ELSE a.markdown)

\* no formatFile run is under study
NoRendering ==
    [done |-> FALSE,
     args |-> [author |-> <<>>, ep |-> <<>>, id |-> 0, markdown |-> <<>>,
               title |-> NullTitle, type |-> "social"],
     text |-> <<>>]

newCall(proposal) ==
    [proposal |-> proposal,
     inFlight |-> {c \in DOMAIN calls : calls[c].pc \notin {"returned", "threw"}},
                             \* the calls that had not ended when this one began
     pc |-> "assignNumber",
     currentYear |-> 0,      \* the year assignNumber read
     currentTerm |-> 0,      \* the term assignNumber computed from it
     data |-> {},            \* the listing assignNumber read
     ep |-> NoEp,            \* the number assignNumber returned
     sha |-> {},             \* the tree of heads/master that getRef returned
     createRefOutcome |-> "none",  \* how the createRef request ended
     createdBranch |-> "none",     \* what createBranch produced
     error |-> "none",       \* the request that ended the call with an exception
     listingReads |-> 0,     \* getContent requests sent
     refReads |-> 0,         \* getRef requests sent
     refCreates |-> 0,       \* createRef requests sent
     renders |-> 0,          \* formatFile runs
     commitRequests |-> 0,   \* createOrUpdateFileContents requests sent
     commits |-> 0,          \* ... that committed the file
     pullRequests |-> 0,     \* pulls.create requests sent
     pullsOpened |-> 0,      \* ... that opened a pull request
     logged |-> FALSE,       \* console.log(`Created PR ...`)
     sent |-> [getContent |-> {}, getRef |-> {}, createRef |-> {},
               createOrUpdateFileContents |-> {}, pullsCreate |-> {}]]
                             \* the parameters of the requests sent, by method

finished(c) == calls[c].pc \in {"returned", "threw"}

TypeOK ==
    /\ this \in [owner : STRING, repo : STRING, upstreamOwner : STRING, upstreamRepo : STRING]
    /\ year \in Years
    /\ DOMAIN dir = Repos
    /\ DOMAIN branches = Repos
    /\ Len(calls) <= MaxCalls

Init ==
    /\ env \in Envs
    /\ this = constructor(env)
    /\ rendering = NoRendering
    /\ year \in Years
    /\ \E up \in InitListings : \E fork \in {up, {}} :
           dir = [r \in Repos |-> IF r = UpstreamDocs THEN up ELSE fork]
    /\ branches = [r \in Repos |-> [b \in {} |-> {}]]
    /\ pulls = <<>>
    /\ calls = <<>>

\* ------------------------------------------------- the GitHub REST service
\* the ways a createRef request can end: 422 (a RequestError) when the ref
\* exists, otherwise the ref is created unless the request is refused with
\* another HTTP error (a RequestError) or fails outside HTTP
createRefOutcomes(r, branch) ==
    IF branch \in DOMAIN branches[r]
    THEN {"RequestError", "otherError"}
    ELSE {"created", "RequestError", "otherError"}

\* createOrUpdateFileContents without a sha creates the file; it is refused
\* when the path already exists on the branch
commitOutcomes(r, branch, name) ==
    IF branch \notin DOMAIN branches[r] \/ name \in branches[r][branch]
    THEN {"error"}
    ELSE {"committed", "error"}

openPulls(r, head) == {i \in DOMAIN pulls : pulls[i].base_repo = r /\ pulls[i].head = head}

\* pulls.create is refused when a pull request for the same head and base is open
pullOutcomes(r, head) ==
    IF openPulls(r, head) # {} THEN {"error"} ELSE {"opened", "error"}

\* --------------------------------------------------------------- addProposal
\* addProposal is entered: branch is computed and assignNumber is called.
\* Calls are made one after the other (a proposal is processed fully before
\* the next one starts); the calls of one behaviour of Spec fall in one year.
addProposal(proposal) ==
    /\ Len(calls) < MaxCalls
    /\ \A c \in DOMAIN calls : finished(c)
    /\ calls' = Append(calls, newCall(proposal))
    /\ UNCHANGED <<env, rendering, this, year, dir, branches, pulls>>

\* assignNumber: reads the clock, awaits getContent on the upstream
\* repository and computes the number
assignNumberStep(c) ==
    /\ calls[c].pc = "assignNumber"
    /\ \E answer \in {"error", "notArray", "array"} :
         LET next == afterAssignNumber(answer)
             request == getContentRequest(this)
             listing == dir[repoOf(request)]
         IN  calls' = [calls EXCEPT ![c] =
                 [@ EXCEPT !.listingReads = @ + 1,
                           !.sent.getContent = @ \cup {request},
                           !.currentYear = year,
                           !.currentTerm = currentTermOf(year),
                           !.data = IF answer = "array" THEN listing ELSE {},
                           !.ep = IF answer = "array"
                                  THEN assignNumber(year, listing) ELSE NoEp,
                           !.error = IF answer = "array" THEN "none" ELSE answer,
                           !.pc = next]]
    /\ UNCHANGED <<env, rendering, this, year, dir, branches, pulls>>

\* createBranch, first await: getRef heads/master on the user's repository
getRefStep(c) ==
    /\ calls[c].pc = "getRef"
    /\ \E ok \in BOOLEAN :
         calls' = [calls EXCEPT ![c] =
             [@ EXCEPT !.refReads = @ + 1,
                       !.sent.getRef = @ \cup {getRefRequest(this)},
                       !.sha = IF ok THEN dir[repoOf(getRefRequest(this))] ELSE {},
                       !.error = IF ok THEN @ ELSE "getRef",
                       !.pc = afterGetRef(ok)]]
    /\ UNCHANGED <<env, rendering, this, year, dir, branches, pulls>>

\* createBranch, second await: createRef refs/heads/<branch> inside try/catch,
\* then the if (createdBranch) of addProposal
createRefStep(c) ==
    /\ calls[c].pc = "createRef"
    /\ LET branch == branchName(calls[c].proposal.id)
           request == createRefRequest(this, branch, calls[c].sha)
       IN  \E outcome \in createRefOutcomes(repoOf(request), branch) :
             LET createdBranch == createBranchResult(outcome)
             IN  /\ branches' =
                        IF outcome = "created"
                        THEN [branches EXCEPT ![repoOf(request)] =
                                 [b \in DOMAIN @ \cup {branch} |->
                                     IF b = branch THEN request.sha ELSE @[b]]]
                        ELSE branches
                 /\ calls' = [calls EXCEPT ![c] =
                        [@ EXCEPT !.refCreates = @ + 1,
                                  !.sent.createRef = @ \cup {request},
                                  !.createRefOutcome = outcome,
                                  !.createdBranch = createdBranch,
                                  !.error = IF createdBranch = "throw" THEN "createRef" ELSE @,
                                  !.pc = afterCreateBranch(createdBranch)]]
    /\ UNCHANGED <<env, rendering, this, year, dir, pulls>>

\* createFile: formatFile renders the proposal (prettier rejects a malformed
\* document), then createOrUpdateFileContents commits it on the branch
createFileStep(c) ==
    /\ calls[c].pc = "createFile"
    /\ LET branch == branchName(calls[c].proposal.id)
           request == createFileRequest(this, branch, calls[c].ep)
           name == entryName(request.path)
       IN  IF calls[c].proposal.malformed
           THEN /\ calls' = [calls EXCEPT ![c] =
                       [@ EXCEPT !.renders = @ + 1,
                                 !.error = "formatFile",
                                 !.pc = afterCreateFile("renderError")]]
                /\ UNCHANGED branches
           ELSE \E outcome \in commitOutcomes(repoOf(request), request.branch, name) :
                  /\ branches' =
                         IF outcome = "committed"
                         THEN [branches EXCEPT ![repoOf(request)][request.branch] =
                                  @ \cup {name}]
                         ELSE branches
                  /\ calls' = [calls EXCEPT ![c] =
                         [@ EXCEPT !.renders = @ + 1,
                                   !.sent.createOrUpdateFileContents = @ \cup {request},
                                   !.commitRequests = @ + 1,
                                   !.commits = IF outcome = "committed" THEN @ + 1 ELSE @,
                                   !.error = IF outcome = "committed" THEN @ ELSE "createFile",
                                   !.pc = afterCreateFile(outcome)]]
    /\ UNCHANGED <<env, rendering, this, year, dir, pulls>>

\* openPullRequest: pulls.create on the upstream repository with head
\* <owner>:<branch> and base master, then the console.log of its URL
openPullRequestStep(c) ==
    /\ calls[c].pc = "openPullRequest"
    /\ LET request == openPullRequestRequest(this, branchName(calls[c].proposal.id),
                                              calls[c].ep)
       IN  \E outcome \in pullOutcomes(repoOf(request), request.head) :
             /\ pulls' =
                    IF outcome = "opened"
                    THEN Append(pulls, [base_repo |-> repoOf(request), base |-> request.base,
                                        head |-> request.head, title |-> request.title])
                    ELSE pulls
             /\ calls' = [calls EXCEPT ![c] =
                    [@ EXCEPT !.pullRequests = @ + 1,
                              !.sent.pullsCreate = @ \cup {request},
                              !.pullsOpened = IF outcome = "opened" THEN @ + 1 ELSE @,
                              !.logged = (outcome = "opened"),
                              !.error = IF outcome = "opened" THEN @ ELSE "openPullRequest",
                              !.pc = afterOpenPullRequest(outcome)]]
    /\ UNCHANGED <<env, rendering, this, year, dir, branches>>

\* ------------------------------------------------------------ environment
\* the clock passes January 1 (between calls)
newYear ==
    /\ year < LastYear
    /\ \A c \in DOMAIN calls : finished(c)
    /\ year' = year + 1
    /\ UNCHANGED <<env, rendering, this, dir, branches, pulls, calls>>

\* a maintainer merges a pull request: the files of its head branch reach
\* master of the base repository, so later listings contain them
mergePullRequest(i) ==
    /\ \A c \in DOMAIN calls : finished(c)
    /\ LET pr == pulls[i]
           headRepo == [owner |-> pr.head.owner, repo |-> this.repo]
       IN  /\ ~(branches[headRepo][pr.head.branch] \subseteq dir[pr.base_repo])
           /\ dir' = [dir EXCEPT ![pr.base_repo] = @ \cup branches[headRepo][pr.head.branch]]
    /\ UNCHANGED <<env, rendering, this, year, branches, pulls, calls>>

Next ==
    \/ \E proposal \in Proposals : addProposal(proposal)
    \/ \E c \in DOMAIN calls : assignNumberStep(c)
    \/ \E c \in DOMAIN calls : getRefStep(c)
    \/ \E c \in DOMAIN calls : createRefStep(c)
    \/ \E c \in DOMAIN calls : createFileStep(c)
    \/ \E c \in DOMAIN calls : openPullRequestStep(c)
    \/ \E i \in DOMAIN pulls : mergePullRequest(i)

Spec == Init /\ [][Next]_vars

\* ---------------------------------------------- the numbering on its own
\* assignNumber applied to every listing drawn from Names in every year,
\* the clock advancing before and after the call
InitNumbering ==
    /\ env \in Envs
    /\ this = constructor(env)
    /\ rendering = NoRendering
    /\ year \in Years
    /\ \E listing \in SUBSET Names : dir = [r \in Repos |-> listing]
    /\ branches = [r \in Repos |-> [b \in {} |-> {}]]
    /\ pulls = <<>>
    /\ calls = <<>>

NextNumbering ==
    \/ \E proposal \in Proposals : calls = <<>> /\ addProposal(proposal)
    \/ \E c \in DOMAIN calls : assignNumberStep(c)
    \/ newYear

SpecNumbering == InitNumbering /\ [][NextNumbering]_vars

\* ------------------------------------------------ publication over the years
\* the calls of Spec with the clock advancing between them, for one
\* configuration and one listing
InitClock ==
    /\ env = [GITHUB_REPO_OWNER |-> ForkDocs.owner, GITHUB_REPO_NAME |-> ForkDocs.repo,
              IS_DEV |-> FALSE]
    /\ this = constructor(env)
    /\ rendering = NoRendering
    /\ year \in Years
    /\ dir = [r \in Repos |-> {}]
    /\ branches = [r \in Repos |-> [b \in {} |-> {}]]
    /\ pulls = <<>>
    /\ calls = <<>>

NextClock ==
    \/ Next
    \/ newYear

SpecClock == InitClock /\ [][NextClock]_vars

\* ------------------------------------------------------ overlapping calls
\* addProposal entered while earlier calls are still awaiting (overlapping
\* scheduler ticks); every request is served atomically by the repository
addProposalOverlapping(proposal) ==
    /\ Len(calls) < MaxCalls
    /\ calls' = Append(calls, newCall(proposal))
    /\ UNCHANGED <<env, rendering, this, year, dir, branches, pulls>>

InitOverlapping ==
    /\ env \in Envs
    /\ this = constructor(env)
    /\ rendering = NoRendering
    /\ year = LastYear
    /\ dir = [r \in Repos |-> {}]
    /\ branches = [r \in Repos |-> [b \in {} |-> {}]]
    /\ pulls = <<>>
    /\ calls = <<>>

NextOverlapping ==
    \/ \E proposal \in Proposals : addProposalOverlapping(proposal)
    \/ \E c \in DOMAIN calls : assignNumberStep(c)
    \/ \E c \in DOMAIN calls : getRefStep(c)
    \/ \E c \in DOMAIN calls : createRefStep(c)
    \/ \E c \in DOMAIN calls : createFileStep(c)
    \/ \E c \in DOMAIN calls : openPullRequestStep(c)
    \/ \E i \in DOMAIN pulls : mergePullRequest(i)

SpecOverlapping == InitOverlapping /\ [][NextOverlapping]_vars

\* ------------------------------------------------------ formatFile on its own
\* formatFile applied to every title, body and type of FormatArgs; what
\* prettier and the base64 encoding make of the text is not modelled
InitFormat ==
    /\ env = [GITHUB_REPO_OWNER |-> ForkDocs.owner, GITHUB_REPO_NAME |-> ForkDocs.repo,
              IS_DEV |-> FALSE]
    /\ this = constructor(env)
    /\ \E a \in FormatArgs : rendering = [done |-> FALSE, args |-> a, text |-> <<>>]
    /\ year = FirstYear
    /\ dir = [r \in Repos |-> {}]
    /\ branches = [r \in Repos |-> [b \in {} |-> {}]]
    /\ pulls = <<>>
    /\ calls = <<>>

formatFile ==
    /\ ~rendering.done
    /\ rendering' = [rendering EXCEPT !.done = TRUE, !.text = formatFileText(rendering.args)]
    /\ UNCHANGED <<env, this, year, dir, branches, pulls, calls>>

NextFormat == formatFile

SpecFormat == InitFormat /\ [][NextFormat]_vars

\* ---------------------------------------------------------------- history
callsFor(id) == {c \in DOMAIN calls : calls[c].proposal.id = id}
branchExists(id) == branchName(id) \in DOMAIN branches[userRepo]
headOf(id) == [owner |-> this.owner, branch |-> branchName(id)]
pullsWithHead(id) == {i \in DOMAIN pulls : pulls[i].head = headOf(id)}
createdTheBranch(c) == calls[c].createRefOutcome = "created"

\* ------------------------------------------------------------------ claims

\* C1 as stated: after two or more finished addProposal calls with the same
\* id exactly one branch prop/<id> exists (created by exactly one call), at
\* most one pull request has that head, and no call after the one that
\* created the branch sends a file commit or a pull-request creation.
C1_AsStated ==
    \A id \in Ids :
        (Cardinality(callsFor(id)) >= 2 /\ \A c \in callsFor(id) : finished(c)) =>
            /\ branchExists(id)
            /\ Cardinality({c \in callsFor(id) : createdTheBranch(c)}) = 1
            /\ Cardinality(pullsWithHead(id)) <= 1
            /\ \A c, d \in callsFor(id) :
                   (c < d /\ createdTheBranch(c)) =>
                       calls[d].commitRequests = 0 /\ calls[d].pullRequests = 0

\* C1 amended: for every id at most one call creates branch prop/<id>, the
\* branch exists exactly when the createRef of some call succeeded, at most
\* one pull request has that head, and no call after the one that created
\* the branch renders, commits or asks for a pull request.
C1_IdempotentPublish ==
    \A id \in Ids :
        /\ Cardinality({c \in callsFor(id) : calls[c].createdBranch = "ref"}) <= 1
        /\ branchExists(id) <=> (\E c \in callsFor(id) : calls[c].createdBranch = "ref")
        /\ Cardinality(pullsWithHead(id)) <= 1
        /\ \A c, d \in callsFor(id) :
               (c < d /\ calls[c].createdBranch = "ref") =>
                   /\ calls[d].renders = 0
                   /\ calls[d].commitRequests = 0
                   /\ calls[d].pullRequests = 0

\* two finished calls for one id: the first published, the second was a no-op
C1_Witness ==
    \E c, d \in DOMAIN calls :
        /\ c < d
        /\ calls[c].proposal.id = calls[d].proposal.id
        /\ calls[c].pullsOpened = 1 /\ calls[c].pc = "returned"
        /\ calls[d].refCreates = 1 /\ calls[d].pc = "returned"

\* C2: within one call the file commit and the pull-request creation are
\* sent only if the createRef of that call created the branch, and the
\* pull-request creation only after the file commit of that call succeeded.
C2_OnlyAfterFreshBranch ==
    \A c \in DOMAIN calls :
        /\ (calls[c].renders > 0 \/ calls[c].commitRequests > 0 \/ calls[c].pullRequests > 0
              \/ calls[c].pc \in {"createFile", "openPullRequest"})
               => createdTheBranch(c)
        /\ (calls[c].pullRequests > 0 \/ calls[c].pc = "openPullRequest")
               => calls[c].commits = 1

C2_Witness ==
    \E c \in DOMAIN calls :
        createdTheBranch(c) /\ calls[c].commits = 1 /\ calls[c].pullsOpened = 1

\* C3: a call whose getContent failed or answered something that is not an
\* array ends with an exception and has sent no getRef, no createRef, no
\* file commit and no pull-request creation, and the step that ends it
\* leaves the repositories as they were.
C3_ListingFailure ==
    [][\A c \in DOMAIN calls' :
           calls'[c].error \in {"error", "notArray"} =>
               /\ calls'[c].pc = "threw"
               /\ calls'[c].listingReads = 1
               /\ calls'[c].refReads = 0
               /\ calls'[c].refCreates = 0
               /\ calls'[c].renders = 0
               /\ calls'[c].commitRequests = 0
               /\ calls'[c].pullRequests = 0
               /\ (c \in DOMAIN calls /\ calls[c].pc = "assignNumber")
                      => UNCHANGED <<dir, branches, pulls>>]_vars

\* a call ended by the listing failure, and a later call published the
\* same proposal
C3_Witness ==
    \E c, d \in DOMAIN calls :
        /\ c < d
        /\ calls[c].proposal = calls[d].proposal
        /\ calls[c].error \in {"error", "notArray"} /\ calls[c].pc = "threw"
        /\ calls[d].pullsOpened = 1

\* C4: once a call created branch prop/<id> and then failed in createFile
\* or in openPullRequest, no later call for the same id renders, commits or
\* asks for a pull request; such a call never gets past createBranch.
C4_NoResume ==
    \A c, d \in DOMAIN calls :
        (/\ c < d
         /\ calls[c].proposal.id = calls[d].proposal.id
         /\ createdTheBranch(c)
         /\ calls[c].error \in {"formatFile", "createFile", "openPullRequest"}) =>
            /\ calls[d].renders = 0
            /\ calls[d].commitRequests = 0
            /\ calls[d].commits = 0
            /\ calls[d].pullRequests = 0
            /\ calls[d].pc \notin {"createFile", "openPullRequest"}
            /\ calls[d].createdBranch \in {"none", "null", "throw"}
            /\ Cardinality(pullsWithHead(calls[c].proposal.id)) = 0

\* the first call failed at the commit, the retry returned without doing it
C4_Witness ==
    \E c, d \in DOMAIN calls :
        /\ c < d
        /\ calls[c].proposal.id = calls[d].proposal.id
        /\ createdTheBranch(c)
        /\ calls[c].error \in {"createFile", "openPullRequest"}
        /\ calls[d].pc = "returned" /\ calls[d].createdBranch = "null"

\* C5: a call whose createOrUpdateFileContents request failed ends with the
\* exception, sends no pull-request creation, and branch prop/<id> that it
\* created is still there.
C5_CommitFailure ==
    \A c \in DOMAIN calls :
        (calls[c].commitRequests > 0 /\ calls[c].commits = 0) =>
            /\ calls[c].pc = "threw"
            /\ calls[c].error = "createFile"
            /\ calls[c].pullRequests = 0
            /\ calls[c].pullsOpened = 0
            /\ createdTheBranch(c)
            /\ branchExists(calls[c].proposal.id)

C5_Witness ==
    \E c \in DOMAIN calls :
        /\ calls[c].commitRequests = 1 /\ calls[c].commits = 0
        /\ calls[c].pc = "threw"
        /\ branchExists(calls[c].proposal.id)

\* C6: a call whose pulls.create request failed ends with the exception,
\* has sent that request exactly once, and leaves the branch with the
\* committed file and no pull request for it.
C6_PullRequestFailure ==
    \A c \in DOMAIN calls :
        (calls[c].pullRequests > 0 /\ calls[c].pullsOpened = 0) =>
            /\ calls[c].pc = "threw"
            /\ calls[c].error = "openPullRequest"
            /\ calls[c].pullRequests = 1
            /\ calls[c].logged = FALSE
            /\ branchExists(calls[c].proposal.id)
            /\ fileName(calls[c].ep) \in branches[userRepo][branchName(calls[c].proposal.id)]
            /\ pullsWithHead(calls[c].proposal.id) = {}

C6_Witness ==
    \E c \in DOMAIN calls :
        /\ calls[c].pullRequests = 1 /\ calls[c].pullsOpened = 0
        /\ calls[c].commits = 1
        /\ calls[c].pc = "threw"

\* the position of the first "." of a name (Len + 1 when there is none)
firstDot(name) ==
    CHOOSE k \in 1..(Len(name) + 1) :
        /\ k = Len(name) + 1 \/ name[k] = "."
        /\ \A j \in 1..(k - 1) : name[j] # "."

\* the name is "<t>.<anything>": its first dot-separated field is t in decimal
isOfTerm(name, t) ==
    /\ firstDot(name) <= Len(name)
    /\ SubSeq(name, 1, firstDot(name) - 1) = numberToString(t)

termOfCall(c) == startingTerm + (calls[c].currentYear - startingYear)
countOfTerm(c) == Cardinality({name \in calls[c].data : isOfTerm(name, termOfCall(c))})

\* C7: in a term t other than 6 assignNumber returns t "." (n + 1), n being
\* the number of names of the listing whose first field is t.
C7_GeneralNumber ==
    \A c \in DOMAIN calls :
        (calls[c].ep # NoEp /\ termOfCall(c) # 6) =>
            calls[c].ep = numberToString(termOfCall(c)) \o <<".">>
                              \o numberToString(countOfTerm(c) + 1)

\* term 7 with 7.1.mdx, 7.2.mdx and 70.1.mdx listed: the number is 7.3
C7_Witness ==
    \E c \in DOMAIN calls :
        /\ termOfCall(c) = 7
        /\ {n7x1, n7x2, n70x1, n6x1} \subseteq calls[c].data
        /\ calls[c].ep = <<"7", ".", "3">>

\* C8: in term 6 assignNumber returns "6." (n - 2), n being the number of
\* names of the listing whose first field is 6, whatever the listing.
C8_ExceptionNumber ==
    \A c \in DOMAIN calls :
        (calls[c].ep # NoEp /\ termOfCall(c) = 6) =>
            calls[c].ep = <<"6", ".">> \o numberToString(countOfTerm(c) - 2)

\* term 6 with 6.1, 6.2, 6.6.1, 6.6.2 and 66.1 listed: the number is 6.2
C8_Witness ==
    \E c \in DOMAIN calls :
        /\ calls[c].currentYear = 2025
        /\ calls[c].data = {n6x1, n6x2, n6x6x1, n6x6x2, n66x1}
        /\ calls[c].ep = <<"6", ".", "2">>

\* C9: a number assigned to one proposal is never assigned to a different
\* proposal by a later call.
C9_NumberNeverReused ==
    \A c, d \in DOMAIN calls :
        (/\ c < d
         /\ calls[c].ep # NoEp
         /\ calls[d].ep # NoEp
         /\ calls[c].proposal.id # calls[d].proposal.id) =>
            calls[c].ep # calls[d].ep

\* C10: when a later call for another id got the number of a call that
\* committed its file, the later call fails at its file commit and sends no
\* pull-request creation.
C10_CollisionSurfaces ==
    \A c, d \in DOMAIN calls :
        (/\ c < d
         /\ calls[c].proposal.id # calls[d].proposal.id
         /\ calls[c].ep # NoEp
         /\ calls[c].ep = calls[d].ep
         /\ calls[c].commits = 1
         /\ calls[d].commitRequests > 0) =>
            /\ calls[d].commits = 0
            /\ calls[d].pc = "threw"
            /\ calls[d].pullRequests = 0

\* C11 as stated: once formatFile failed in a call, every later finished
\* call for the same proposal ends with the same formatFile failure.
C11_AsStated ==
    \A c, d \in DOMAIN calls :
        (/\ c < d
         /\ calls[c].proposal = calls[d].proposal
         /\ calls[c].error = "formatFile"
         /\ finished(d)) =>
            calls[d].pc = "threw" /\ calls[d].error = "formatFile"

\* C11 amended: formatFile fails in a call exactly when the proposal is
\* malformed, and by then the call has created branch prop/<id>; no later
\* call for the same proposal runs formatFile again or ends with the render
\* failure: it never gets past createBranch.
C11_RenderFailureNotRetried ==
    /\ \A c \in DOMAIN calls :
           /\ calls[c].renders > 0 =>
                  (calls[c].error = "formatFile" <=> calls[c].proposal.malformed)
           /\ calls[c].error = "formatFile" =>
                  /\ calls[c].pc = "threw"
                  /\ createdTheBranch(c)
                  /\ calls[c].commitRequests = 0
                  /\ branchExists(calls[c].proposal.id)
    /\ \A c, d \in DOMAIN calls :
           (/\ c < d
            /\ calls[c].proposal = calls[d].proposal
            /\ calls[c].error = "formatFile") =>
               /\ calls[d].renders = 0
               /\ calls[d].error # "formatFile"
               /\ calls[d].pc \notin {"createFile", "openPullRequest"}
               /\ calls[d].createdBranch \in {"none", "null", "throw"}

\* the render failed in one call and the retry returned normally
C11_Witness ==
    \E c, d \in DOMAIN calls :
        /\ c < d
        /\ calls[c].proposal = calls[d].proposal
        /\ calls[c].error = "formatFile"
        /\ calls[d].pc = "returned"
        /\ calls[d].createdBranch = "null"

\* the number the numbering rule gives for the year and the listing the call read
expectedNumber(c) ==
    numberToString(termOfCall(c)) \o <<".">>
        \o numberToString(IF termOfCall(c) = 6 THEN countOfTerm(c) - 2
                                               ELSE countOfTerm(c) + 1)

published(c) == calls[c].pc = "returned" /\ calls[c].pullsOpened = 1

\* C12: in a call that opened its pull request, with n the number assigned
\* at its start, the ref created is refs/heads/prop/<id>, the file is
\* committed on branch prop/<id> at src/pages/dao/proposals/<n>.mdx with
\* message "Add EP <n>", and the pull request has title "Add EP <n>", head
\* <owner>:prop/<id> and base master.
C12_Artifact ==
    \A c \in DOMAIN calls :
        published(c) =>
            LET n == expectedNumber(c)
                prop == <<"p", "r", "o", "p", "/">> \o numberToString(calls[c].proposal.id)
                owner == env.GITHUB_REPO_OWNER
            IN  /\ calls[c].ep = n
                /\ \E r \in calls[c].sent.createRef :
                       /\ calls[c].sent.createRef = {r}
                       /\ r.ref = <<"refs/heads/">> \o prop
                /\ prop \in DOMAIN branches[userRepo]
                /\ \E r \in calls[c].sent.createOrUpdateFileContents :
                       /\ calls[c].sent.createOrUpdateFileContents = {r}
                       /\ r.path = <<"src/pages/dao/proposals/">> \o n \o <<".", "m", "d", "x">>
                       /\ r.message = <<"Add EP ">> \o n
                       /\ r.branch = prop
                /\ (n \o <<".", "m", "d", "x">>) \in branches[userRepo][prop]
                /\ \E r \in calls[c].sent.pullsCreate :
                       /\ calls[c].sent.pullsCreate = {r}
                       /\ r.title = <<"Add EP ">> \o n
                       /\ r.head = [owner |-> owner, branch |-> prop]
                       /\ r.base = "master"
                /\ \E i \in DOMAIN pulls :
                       /\ pulls[i].title = <<"Add EP ">> \o n
                       /\ pulls[i].head = [owner |-> owner, branch |-> prop]
                       /\ pulls[i].base = "master"

\* proposal 2 published in 2026 from an empty listing as EP 7.1
C12_Witness ==
    \E c \in DOMAIN calls :
        /\ published(c)
        /\ calls[c].proposal.id = 2
        /\ calls[c].ep = <<"7", ".", "1">>
        /\ \E i \in DOMAIN pulls :
               /\ pulls[i].title = <<"Add EP ", "7", ".", "1">>
               /\ pulls[i].head.branch = <<"p", "r", "o", "p", "/", "2">>

targetsOf(requests) == {[owner |-> r.owner, repo |-> r.repo] : r \in requests}

\* C13: with IS_DEV set every request of addProposal is addressed to
\* GITHUB_REPO_OWNER/GITHUB_REPO_NAME and none to ensdomains/docs; without
\* it getContent and pulls.create are addressed to ensdomains/docs and
\* getRef, createRef and createOrUpdateFileContents to the fork.
C13_Targets ==
    LET fork == [owner |-> env.GITHUB_REPO_OWNER, repo |-> env.GITHUB_REPO_NAME]
        docs == [owner |-> "ensdomains", repo |-> "docs"]
    IN  /\ \A c \in DOMAIN calls :
               LET sent == calls[c].sent
                   onFork == targetsOf(sent.getRef \cup sent.createRef
                                           \cup sent.createOrUpdateFileContents)
                   onUpstream == targetsOf(sent.getContent \cup sent.pullsCreate)
               IN  /\ onFork \subseteq {fork}
                   /\ env.IS_DEV => onUpstream \subseteq {fork} /\ docs \notin onFork \cup onUpstream
                   /\ ~env.IS_DEV => onUpstream \subseteq {docs}
        /\ \A i \in DOMAIN pulls :
               pulls[i].base_repo = IF env.IS_DEV THEN fork ELSE docs
        /\ DOMAIN branches[docs] = {}

\* a call in development mode that sent all five requests
C13_Witness ==
    \E c \in DOMAIN calls :
        /\ env.IS_DEV
        /\ published(c)
        /\ \A m \in DOMAIN calls[c].sent : calls[c].sent[m] # {}

\* C14: a call made in year Y uses term 6 + (Y - 2025), also before 2025;
\* over the calls of a behaviour, made at non-decreasing times, the term
\* never decreases and differs only between calls of different years.
C14_Term ==
    /\ \A c \in DOMAIN calls :
           calls[c].listingReads > 0 =>
               /\ calls[c].currentTerm = 6 + (calls[c].currentYear - 2025)
               /\ calls[c].currentYear <= year
               /\ calls[c].ep # NoEp =>
                      /\ firstDot(calls[c].ep) <= Len(calls[c].ep)
                      /\ SubSeq(calls[c].ep, 1, firstDot(calls[c].ep) - 1)
                             = numberToString(6 + (calls[c].currentYear - 2025))
    /\ \A c, d \in DOMAIN calls :
           (c < d /\ calls[c].listingReads > 0 /\ calls[d].listingReads > 0) =>
               /\ calls[c].currentYear <= calls[d].currentYear
               /\ calls[c].currentTerm <= calls[d].currentTerm
               /\ (calls[c].currentTerm = calls[d].currentTerm)
                      <=> (calls[c].currentYear = calls[d].currentYear)

\* a call of 2024 numbered in term 5, a later call of 2026 in term 7
C14_Witness ==
    \E c, d \in DOMAIN calls :
        /\ c < d
        /\ calls[c].currentYear = 2024 /\ calls[c].ep = <<"5", ".", "1">>
        /\ calls[d].currentYear = 2026 /\ calls[d].currentTerm = 7

\* C15: the ordinal is count - 2 exactly in the calls made in 2025; in every
\* call of another year, before or after, it is count + 1, which is what
\* assignNumber without its term-6 branch returns.
C15_CorrectionOnlyIn2025 ==
    \A c \in DOMAIN calls :
        calls[c].ep # NoEp =>
            LET term == numberToString(6 + (calls[c].currentYear - 2025)) \o <<".">>
                general == term \o numberToString(countOfTerm(c) + 1)
                corrected == term \o numberToString(countOfTerm(c) - 2)
            IN  /\ calls[c].currentYear = 2025 => calls[c].ep = corrected
                /\ calls[c].currentYear # 2025 => calls[c].ep = general
                /\ general # corrected

\* a call of 2026 over a listing with term-6 and term-7 files gets 7.3
C15_Witness ==
    \E c \in DOMAIN calls :
        /\ calls[c].currentYear = 2026
        /\ calls[c].data = {n6x1, n6x2, n6x6x1, n6x6x2, n7x1, n7x2}
        /\ calls[c].ep = <<"7", ".", "3">>

Range(f) == {f[i] : i \in DOMAIN f}

\* title occurs in body as an exact substring, starting at position i
occursAt(title, body, i) ==
    /\ i >= 1
    /\ i + Len(title) - 1 <= Len(body)
    /\ \A k \in 1..Len(title) : body[i + k - 1] = title[k]

HeadingOpen == "[EP "
AuthorsBlock == "\n\n::authors\n\n"

\* C16: with no title, or with a title that does not occur in the body, the
\* text handed to the formatter is the front matter (authors: the author,
\* proposal.type: the type) followed by the unchanged body, with no
\* "[EP ...]" heading, no ::authors block and no metadata table; with a
\* title that occurs, the body before its first occurrence and the body
\* after it are kept as they are and one heading is put in its place.
C16_TitleNotFound ==
    rendering.done =>
        LET a == rendering.args
            title == a.title.s
            body == a.markdown
            front == <<"---\nauthors:\n  - ">> \o a.author
                         \o <<"\nproposal:\n  type: ", Apostrophe, a.type, Apostrophe,
                              "\n---\n\n">>
            absent == a.title.null \/ title = <<>>
            found == ~absent /\ \E i \in 1..Len(body) : occursAt(title, body, i)
        IN  /\ ~found =>
                   /\ rendering.text = front \o body
                   /\ HeadingOpen \notin Range(rendering.text)
                   /\ AuthorsBlock \notin Range(rendering.text)
                   /\ Range(metadataTable(a.type, a.id)) \cap Range(rendering.text) \subseteq Range(numberToString(a.id))
            /\ found =>
                   LET i == CHOOSE j \in 1..Len(body) :
                                /\ occursAt(title, body, j)
                                /\ \A k \in 1..(j - 1) : ~occursAt(title, body, k)
                       before == front \o SubSeq(body, 1, i - 1) \o <<HeadingOpen>> \o a.ep
                       after == <<"\n">> \o SubSeq(body, i + Len(title), Len(body))
                       text == rendering.text
                   IN  /\ Len(text) >= Len(before) + Len(after)
                       /\ SubSeq(text, 1, Len(before)) = before
                       /\ SubSeq(text, Len(text) - Len(after) + 1, Len(text)) = after
                       /\ Cardinality({k \in DOMAIN text : text[k] = HeadingOpen}) = 1
                       /\ Cardinality({k \in DOMAIN text : text[k] = AuthorsBlock}) = 1

\* title "ab" given, body "baa" does not contain it: front matter and body only
C16_Witness ==
    /\ rendering.done
    /\ rendering.args.title = [null |-> FALSE, s |-> <<"a", "b">>]
    /\ rendering.args.markdown = <<"b", "a", "a">>
    /\ Len(rendering.text) = 10
    /\ SubSeq(rendering.text, 8, 10) = <<"b", "a", "a">>

\* C17: a call returns normally without a commit and without a pull request
\* only if branch prop/<id> existed before the call, that is, an earlier
\* call for the id created it.
C17_NoOpOnlyIfBranchExisted ==
    \A c \in DOMAIN calls :
        (calls[c].pc = "returned" /\ calls[c].commits = 0 /\ calls[c].pullsOpened = 0) =>
            \E b \in DOMAIN calls :
                /\ b < c
                /\ calls[b].proposal.id = calls[c].proposal.id
                /\ createdTheBranch(b)

\* C18: however the steps of overlapping calls for one id interleave, at
\* most one of them gets to createFile, at most one commits a file, at most
\* one opens a pull request, and at most one pull request has head
\* <owner>:prop/<id>.
C18_OverlappingCalls ==
    \A id \in Ids :
        /\ Cardinality({c \in callsFor(id) : createdTheBranch(c)}) <= 1
        /\ Cardinality({c \in callsFor(id) :
               calls[c].renders > 0 \/ calls[c].commitRequests > 0
                   \/ calls[c].pc \in {"createFile", "openPullRequest"}}) <= 1
        /\ Cardinality({c \in callsFor(id) : calls[c].commits > 0}) <= 1
        /\ Cardinality({c \in callsFor(id) : calls[c].pullRequests > 0}) <= 1
        /\ Cardinality(pullsWithHead(id)) <= 1

\* two calls for one id overlapped; the one that began later published and
\* the one that began first found the branch taken
C18_Witness ==
    \E c, d \in DOMAIN calls :
        /\ c < d
        /\ calls[c].proposal.id = calls[d].proposal.id
        /\ c \in calls[d].inFlight
        /\ published(d)
        /\ calls[c].pc = "returned"
        /\ calls[c].createRefOutcome = "RequestError"

\* C19: the file name <number>.mdx derived from the number assignNumber
\* returned is not a name of the listing assignNumber read.
C19_NameNotInSnapshot ==
    \A c \in DOMAIN calls :
        calls[c].ep # NoEp => fileName(calls[c].ep) \notin calls[c].data

\* the part of a number after its first dot
ordinalPart(ep) == SubSeq(ep, firstDot(ep) + 1, Len(ep))

\* C20: the ordinal part of the number assignNumber returned is the decimal
\* form of an integer n >= 1.
C20_OrdinalAtLeastOne ==
    \A c \in DOMAIN calls :
        calls[c].ep # NoEp =>
            \E n \in 1..(Cardinality(calls[c].data) + 1) :
                ordinalPart(calls[c].ep) = numberToString(n)

====
